---- MODULE Spec2Model ----
(***************************************************************************)
(* Model of the AI Co-Scientist orchestrator: the simulated Composio Tool  *)
(* Router client (src/src/tools/composio_client.py), the four tool         *)
(* wrappers (src/src/tools/custom_tools.py), the pydantic schemas          *)
(* (src/src/models.py) and the sequential crew run                         *)
(* (src/src/run_workflow.py, src/src/tasks.py).                            *)
(*                                                                         *)
(* Python strings are TLA+ strings; a text built by an f-string is the     *)
(* sequence of its parts (literals and interpolated values), so that       *)
(* "the text contains X" is "X is one of its parts".                       *)
(***************************************************************************)
EXTENDS Integers, Sequences, FiniteSets, TLC

VARIABLES
  hashOf,    \* the process's str hash (salted per process, fixed during it)
  last,      \* the last client or wrapper call: arguments, result, calls made
  stores,    \* log of the workbench store calls made so far, in order
  run,       \* the crew run: position, stages started, tool call in progress,
             \* first error text
  history    \* the wrapper calls made so far in this process, with the texts
             \* they returned

vars == <<hashOf, last, stores, run, history>>

-----------------------------------------------------------------------------
(* Bounds of the model *)

HashRange == 2   \* hash values are 0 .. HashRange-1
MaxSlugs  == 2   \* longest primary_tool_slugs list given to create_plan
MaxReq    == 2   \* longest request list given to multi_execute_tool
MaxStores == 2   \* number of workbench stores logged
MaxKeys   == 2   \* longest key list given to run_data_analysis
MaxItems  == 2   \* longest JSON request list given to execute_parallel_research
MaxCalls  == 2   \* tool calls an agent makes within one task
MaxHistory == 3  \* wrapper calls remembered in history

-----------------------------------------------------------------------------
(* Python values *)

None == "<None>"

\* The outcome of evaluating a Python call: a returned value or an exception.
Return(v) == [raised |-> FALSE, value |-> v]
Raise(e)  == [raised |-> TRUE, exc |-> e]

\* dict.get(name, default)
Get(d, name, default) == IF name \in DOMAIN d THEN d[name] ELSE default

\* Texts the model draws topics, stored data and hypotheses from.
Strings == {"graphene", "delivery"}

UseCasePrefix == "Generate a novel hypothesis and experimental protocol for the topic: "

\* The strings the model hashes.
HashDomain == Strings \cup {UseCasePrefix \o t : t \in Strings}

\* hash(s): a function of the string alone within one process.
hash(s) == hashOf[s]

\* str(data) of a text is the text.
str(data) == data

-----------------------------------------------------------------------------
(* composio_client.py *)

TOOL_SLUGS ==
  [ARXIV_SEARCH     |-> "arxiv_search_tool_slug",
   PUBCHEM_QUERY    |-> "pubchem_query_tool_slug",
   NOTION_DRAFT     |-> "notion_create_page_slug",
   REMOTE_BASH      |-> "COMPOSIO_REMOTE_BASH_TOOL",
   MULTI_EXECUTE    |-> "COMPOSIO_MULTI_EXECUTE_TOOL",
   CREATE_PLAN      |-> "COMPOSIO_CREATE_PLAN",
   REMOTE_WORKBENCH |-> "COMPOSIO_REMOTE_WORKBENCH"]

\* ComposioClient.create_plan: indexes the first two slugs of the list.
create_plan(use_case, primary_tool_slugs) ==
  IF Len(primary_tool_slugs) < 2
  THEN Raise("IndexError")
  ELSE Return(
    [successful |-> TRUE,
     complexity_assessment |->
       "Hard (requires multi-agent collaboration and large file processing).",
     workflow_steps |->
       << "1. Literature Review (Parallel search using "
            \o primary_tool_slugs[1] \o " and " \o primary_tool_slugs[2] \o ")",
          "2. Store raw results in Remote Workbench.",
          "3. Execute Python Code (Remote Bash) for data cleaning and initial analysis.",
          "4. Draft Final Hypothesis and Protocol.",
          "5. Publish report to Notion/Docs." >>,
     session_id |-> "sess-" \o ToString(hash(use_case)),
     reasoning |->
       "The complexity requires orchestration across research tools and a custom execution environment."])

\* ComposioClient.multi_execute_tool: the two simulated results, whatever
\* the requests are.
multi_execute_tool(execution_requests, session_id) ==
  Return(
    [successful |-> TRUE,
     results |->
       << [tool_slug |-> TOOL_SLUGS["ARXIV_SEARCH"],
           output_summary |->
             "Found 5 highly relevant papers. Raw text stored in workbench.",
           workbench_key |-> "ARXIV-RAW-DATA-KEY-123",
           status |-> "completed"],
          [tool_slug |-> TOOL_SLUGS["PUBCHEM_QUERY"],
           output_summary |->
             "Retrieved 2 candidate chemical structures. Raw data stored in workbench.",
           workbench_key |-> "PUBCHEM-RAW-DATA-KEY-456",
           status |-> "completed"] >>,
     session_id |-> session_id])

\* The keys the simulated retrieve knows.
SimulatedKeys == {"ARXIV-RAW-DATA-KEY-123", "PUBCHEM-RAW-DATA-KEY-456"}

\* Python truthiness of an optional string.
Truthy(s) == s # None /\ s # ""

\* ComposioClient.remote_workbench
remote_workbench(action, key, data) ==
  IF action = "store"
  THEN Return([successful |-> TRUE,
               workbench_key |->
                 IF Truthy(key) THEN key
                 ELSE "workbench-data-" \o ToString(hash(str(data)))])
  ELSE IF action = "retrieve" /\ key \in SimulatedKeys
  THEN Return([successful |-> TRUE,
               data |-> "{... large, structured scientific data for "
                          \o key \o " ...}"])
  ELSE Return([successful |-> FALSE, error |-> "Invalid action or key."])

\* json.dumps(analysis_output) of remote_bash_tool
AnalysisStdout ==
  "{\"final_clean_compounds\": 3, \"critical_risk_flag\": false, \"summary\": \"Data cleaning complete. Identified 3 high-potential compounds that passed initial risk filtering.\"}"

\* ComposioClient.remote_bash_tool
remote_bash_tool(script) ==
  Return([successful |-> TRUE,
          stdout |-> AnalysisStdout,
          stderr |-> "",
          execution_time_ms |-> 450])

-----------------------------------------------------------------------------
(* Inputs of the direct client calls *)

RECURSIVE SeqsUpTo(_, _)
\* All sequences over S of length at most n.
SeqsUpTo(S, n) ==
  IF n = 0 THEN {<<>>}
  ELSE LET shorter == SeqsUpTo(S, n - 1)
       IN shorter \cup {Append(s, x) : s \in {t \in shorter : Len(t) = n - 1}, x \in S}

SlugInputs == {TOOL_SLUGS["ARXIV_SEARCH"], TOOL_SLUGS["PUBCHEM_QUERY"]}

RequestInputs ==
  {[tool_slug |-> s, arguments |-> "{}"] :
     s \in {TOOL_SLUGS["ARXIV_SEARCH"], TOOL_SLUGS["PUBCHEM_QUERY"], "custom_tool_slug"}}

UseCaseInputs == {UseCasePrefix \o t : t \in Strings}

SessionInputs == {"sess-0", "sess-unknown"}

\* Keys a caller may pass: the simulated ones, a caller-chosen one, and the
\* ones store derives from a hash.
KeyInputs ==
  SimulatedKeys \cup {"my-key"}
    \cup {"workbench-data-" \o ToString(h) : h \in 0 .. HashRange - 1}

NoCall == [op |-> "none"]

\* No crew run has been started.
NoRun ==
  [pc |-> "idle", keywords |-> <<>>, stage |-> 0, started |-> <<>>, calls |-> 0,
   inTool |-> 0, errStage |-> 0, errCall |-> 0]

\* The state after the module is imported: a hash salt has been drawn, the
\* global client exists, nothing has been called.
Init ==
  /\ hashOf \in [HashDomain -> 0 .. HashRange - 1]
  /\ last = NoCall
  /\ stores = <<>>
  /\ run = NoRun
  /\ history = <<>>

-----------------------------------------------------------------------------
(* Direct calls of the client *)

CreatePlan ==
  \E use_case \in UseCaseInputs, slugs \in SeqsUpTo(SlugInputs, MaxSlugs) :
    /\ last = NoCall
    /\ last' = [op |-> "create_plan", use_case |-> use_case, slugs |-> slugs,
                result |-> create_plan(use_case, slugs)]
    /\ UNCHANGED <<hashOf, stores, run, history>>

MultiExecute ==
  \E reqs \in SeqsUpTo(RequestInputs, MaxReq), sid \in SessionInputs :
    /\ last = NoCall
    /\ last' = [op |-> "multi_execute_tool", requests |-> reqs, session_id |-> sid,
                result |-> multi_execute_tool(reqs, sid)]
    /\ UNCHANGED <<hashOf, stores, run, history>>

WorkbenchStore ==
  \E key \in {None, "my-key"}, data \in Strings :
    /\ last = NoCall
    /\ Len(stores) < MaxStores
    /\ LET res == remote_workbench("store", key, data)
       IN /\ last' = [op |-> "store", key |-> key, data |-> data, result |-> res]
          /\ stores' = Append(stores, [given |-> key, data |-> data,
                                       returned |-> res.value.workbench_key])
    /\ UNCHANGED <<hashOf, run, history>>

WorkbenchRetrieve ==
  \E key \in KeyInputs :
    /\ last = NoCall
    /\ last' = [op |-> "retrieve", key |-> key,
                result |-> remote_workbench("retrieve", key, None)]
    /\ UNCHANGED <<hashOf, stores, run, history>>

RemoteBash ==
  \E script \in {"analyze_data_from_workbench(keys=[])"} :
    /\ last = NoCall
    /\ last' = [op |-> "remote_bash_tool", script |-> script,
                result |-> remote_bash_tool(script)]
    /\ UNCHANGED <<hashOf, stores, run, history>>

\* The caller takes the value a call returned (or the exception it raised)
\* and is free to make the next call.
TakeResult ==
  /\ last # NoCall
  /\ last' = NoCall
  /\ UNCHANGED <<hashOf, stores, run, history>>

NextClient ==
  \/ TakeResult
  \/ CreatePlan
  \/ MultiExecute
  \/ WorkbenchStore
  \/ WorkbenchRetrieve
  \/ RemoteBash

SpecClient == Init /\ [][NextClient]_vars

-----------------------------------------------------------------------------
(* JSON texts *)

\* A JSON value: a number, a string, a list, an object (its fields as a
\* record) -- or, in an object, a field that is absent or holds a value of a
\* type the schema does not accept.
Scalar    == [k |-> "scalar"]
Absent    == [k |-> "absent"]
Bad       == [k |-> "bad"]
JStr(s)   == [k |-> "str", s |-> s]
JList(l)  == [k |-> "list", l |-> l]
JObj(f)   == [k |-> "obj", f |-> f]

\* An input text: one that is no JSON at all, or the JSON text of a value.
Malformed   == [wellformed |-> FALSE]
JsonText(v) == [wellformed |-> TRUE, value |-> v]

\* json.loads
json_loads(text) ==
  IF text.wellformed THEN Return(text.value) ELSE Raise("JSONDecodeError")

\* json.dumps of a list of strings: the brackets and the quoted items.
json_dumps(list) == <<"[">> \o list \o <<"]">>

RECURSIVE Flatten(_)
\* The parts of a sequence of texts, in order.
Flatten(texts) ==
  IF texts = <<>> THEN <<>> ELSE Head(texts) \o Flatten(Tail(texts))

\* A text contains a part.
Contains(text, part) == \E i \in 1 .. Len(text) : text[i] = part

-----------------------------------------------------------------------------
(* models.py *)

IsStr(fv)     == fv.k = "str"
IsStrList(fv) == fv.k = "list"

\* ResearchQuery(**payload): every field required, keywords any list of str.
ResearchQuery(payload) ==
  IF payload.k # "obj" THEN Raise("TypeError")
  ELSE LET f == payload.f
           topic         == Get(f, "topic", Absent)
           target_output == Get(f, "target_output", Absent)
           keywords      == Get(f, "keywords", Absent)
       IN IF IsStr(topic) /\ IsStr(target_output) /\ IsStrList(keywords)
          THEN Return([topic |-> topic.s, target_output |-> target_output.s,
                       keywords |-> keywords.l])
          ELSE Raise("ValidationError")

\* FinalSynthesis with next_steps declared optional.
FinalSynthesis_OptionalNextSteps(payload) ==
  IF payload.k # "obj" THEN Raise("TypeError")
  ELSE LET f == payload.f
           hypothesis        == Get(f, "hypothesis", Absent)
           protocol_summary  == Get(f, "protocol_summary", Absent)
           analysis_findings == Get(f, "analysis_findings", Absent)
           links             == Get(f, "prior_art_reference_links", Absent)
       IN IF /\ IsStr(hypothesis) /\ IsStr(protocol_summary)
             /\ IsStr(analysis_findings) /\ IsStrList(links)
          THEN Return([hypothesis |-> hypothesis.s,
                       protocol_summary |-> protocol_summary.s,
                       analysis_findings |-> analysis_findings.s,
                       prior_art_reference_links |-> links.l])
          ELSE Raise("ValidationError")

\* FinalSynthesis(**payload): every field required, the links any list of str.
FinalSynthesis(payload) ==
  IF payload.k # "obj" THEN Raise("TypeError")
  ELSE LET f == payload.f
           hypothesis        == Get(f, "hypothesis", Absent)
           protocol_summary  == Get(f, "protocol_summary", Absent)
           analysis_findings == Get(f, "analysis_findings", Absent)
           links             == Get(f, "prior_art_reference_links", Absent)
           next_steps        == Get(f, "next_steps", Absent)
       IN IF /\ IsStr(hypothesis) /\ IsStr(protocol_summary)
             /\ IsStr(analysis_findings) /\ IsStrList(links) /\ IsStr(next_steps)
          THEN Return([hypothesis |-> hypothesis.s,
                       protocol_summary |-> protocol_summary.s,
                       analysis_findings |-> analysis_findings.s,
                       prior_art_reference_links |-> links.l,
                       next_steps |-> next_steps.s])
          ELSE Raise("ValidationError")

-----------------------------------------------------------------------------
(* custom_tools.py *)

\* What stands behind COMPOSIO_CLIENT: the simulated client of this
\* repository, or a backend whose calls raise, or one whose calls answer
\* successful=false (the two failures the wrappers have branches for).
Backends == {"simulated", "raises", "fails"}

\* The outcome of one client call on a backend.
ClientCall(backend, simulated) ==
  CASE backend = "simulated" -> simulated
    [] backend = "raises"    -> Raise("ConnectionError")
    [] backend = "fails"     -> Return([successful |-> FALSE])

\* One entry of the log of client calls a wrapper made.
Call(op, args, backend, result) ==
  [op |-> op, args |-> args, backend |-> backend, result |-> result]

\* What a wrapper call did: its outcome, the client calls it made, and
\* whether it reached the publish step.
Did(out, calls, published) ==
  [out |-> out, calls |-> calls, published |-> published]

\* Catch without the "except json.JSONDecodeError" clause: every exception
\* takes the "except Exception" clause.
Catch_NoJsonClause(out, jsonText, criticalPrefix) ==
  IF ~out.raised THEN out
  ELSE Return(Append(criticalPrefix, out.exc))

\* Catch without the "except Exception" clause: any other exception leaves
\* the wrapper.
Catch_JsonClauseOnly(out, jsonText, criticalPrefix) ==
  IF ~out.raised THEN out
  ELSE IF out.exc = "JSONDecodeError" THEN Return(jsonText)
  ELSE out

\* The except clauses every wrapper ends with: JSONDecodeError first, then
\* Exception; str(e) is written as the exception's name.
Catch(out, jsonText, criticalPrefix) ==
  IF ~out.raised THEN out
  ELSE IF out.exc = "JSONDecodeError" THEN Return(jsonText)
  ELSE Return(Append(criticalPrefix, out.exc))

\* The try block of create_workflow_plan.
PlanBody(query_json, backend) ==
  LET parsed == json_loads(query_json)
  IN IF parsed.raised THEN Did(parsed, <<>>, FALSE)
     ELSE
       LET query == ResearchQuery(parsed.value)
       IN IF query.raised THEN Did(query, <<>>, FALSE)
          ELSE
            LET primary_tools ==
                  <<TOOL_SLUGS["ARXIV_SEARCH"], TOOL_SLUGS["PUBCHEM_QUERY"]>>
                use_case == UseCasePrefix \o query.value.topic
                plan_result ==
                  ClientCall(backend, create_plan(use_case, primary_tools))
                calls == << Call("create_plan", <<use_case, primary_tools>>,
                                 backend, plan_result) >>
            IN IF plan_result.raised THEN Did(plan_result, calls, FALSE)
               ELSE IF Get(plan_result.value, "successful", FALSE)
               THEN Did(Return(<<"Plan successful. Session ID: ",
                                 plan_result.value.session_id,
                                 ". Workflow steps: ">>
                               \o plan_result.value.workflow_steps \o <<".">>),
                        calls, FALSE)
               ELSE Did(Return(<<"Error generating plan: ",
                                 Get(plan_result.value, "reasoning", "Unknown Error")>>),
                        calls, FALSE)

\* create_workflow_plan with a success text that leaves the session id out.
create_workflow_plan_NoSessionId(query_json, backend) ==
  LET body == PlanBody(query_json, backend)
      critical == <<"CRITICAL TOOL ERROR",
                    ": Failed to call Composio CREATE_PLAN. Error: ">>
  IN IF ~body.out.raised /\ body.out.value[1] = "Plan successful. Session ID: "
     THEN [body EXCEPT !.out =
             Return(<<"Plan successful. Workflow steps: ">>
                    \o SubSeq(body.out.value, 4, Len(body.out.value)))]
     ELSE [body EXCEPT !.out =
             Catch(body.out,
                   <<"CRITICAL TOOL ERROR", ": Input was not valid ", "JSON",
                     ". You must pass a ", "JSON",
                     " string conforming to ResearchQuery.">>,
                   critical)]

\* create_workflow_plan(query_json)
create_workflow_plan(query_json, backend) ==
  LET body == PlanBody(query_json, backend)
  IN [body EXCEPT !.out =
        Catch(body.out,
              <<"CRITICAL TOOL ERROR", ": Input was not valid ", "JSON",
                ". You must pass a ", "JSON", " string conforming to ResearchQuery.">>,
              <<"CRITICAL TOOL ERROR",
                ": Failed to call Composio CREATE_PLAN. Error: ">>)]

\* ResolveSlug without the look-up in the table.
ResolveSlug_NoTable(slug) == slug

\* TOOL_SLUGS.get(slug) or slug
ResolveSlug(slug) ==
  IF slug \in DOMAIN TOOL_SLUGS THEN TOOL_SLUGS[slug] ELSE slug

\* req.get('tool_slug') of a request object: None when the field is absent.
SlugOf(req) ==
  LET fv == Get(req.f, "tool_slug", Absent)
  IN IF fv.k = "absent" THEN None ELSE fv.s

\* The execution_requests built by the loop of execute_parallel_research.
ExecutionRequests(items) ==
  [i \in 1 .. Len(items) |->
     [tool_slug |-> ResolveSlug(SlugOf(items[i])),
      arguments |-> Get(items[i].f, "arguments", "{}")]]

\* repr of the result list: the fields of every result, in order.
ReprResults(results) ==
  Flatten([i \in 1 .. Len(results) |->
             <<results[i].tool_slug, results[i].output_summary,
               results[i].workbench_key, results[i].status>>])

\* [res.get('workbench_key') for res in results if res.get('workbench_key')]
WorkbenchKeys(results) ==
  LET kept == {i \in 1 .. Len(results) :
                 Truthy(Get(results[i], "workbench_key", None))}
      F[i \in 0 .. Len(results)] ==
        IF i = 0 THEN <<>>
        ELSE IF i \in kept THEN Append(F[i - 1], results[i].workbench_key)
        ELSE F[i - 1]
  IN F[Len(results)]

\* The try block of execute_parallel_research.
ResearchBody(session_id, requests_json, backend) ==
  LET parsed == json_loads(requests_json)
  IN IF parsed.raised THEN Did(parsed, <<>>, FALSE)
     ELSE IF parsed.value.k = "scalar" THEN Did(Raise("TypeError"), <<>>, FALSE)
     ELSE IF parsed.value.k = "obj" THEN Did(Raise("AttributeError"), <<>>, FALSE)
     ELSE IF \E i \in 1 .. Len(parsed.value.l) : parsed.value.l[i].k # "obj"
     THEN Did(Raise("AttributeError"), <<>>, FALSE)
     ELSE
       LET execution_requests == ExecutionRequests(parsed.value.l)
           multi_exec_result ==
             ClientCall(backend, multi_execute_tool(execution_requests, session_id))
           calls == << Call("multi_execute_tool", <<execution_requests, session_id>>,
                            backend, multi_exec_result) >>
       IN IF multi_exec_result.raised THEN Did(multi_exec_result, calls, FALSE)
          ELSE IF Get(multi_exec_result.value, "successful", FALSE)
          THEN Did(Return(<<"Parallel execution successful. Raw data saved to Workbench. ",
                            "Workbench Keys (JSON list): ">>
                          \o json_dumps(WorkbenchKeys(multi_exec_result.value.results))
                          \o <<". Summary: ">>
                          \o ReprResults(multi_exec_result.value.results)),
                   calls, FALSE)
          ELSE Did(Return(<<"Error during multi-execution: ",
                            Get(multi_exec_result.value, "error", "Unknown Error")>>),
                   calls, FALSE)

\* execute_parallel_research(session_id, requests_json)
execute_parallel_research(session_id, requests_json, backend) ==
  LET body == ResearchBody(session_id, requests_json, backend)
  IN [body EXCEPT !.out =
        Catch(body.out,
              <<"JSON", " Error: The 'requests_json' input was not valid ", "JSON", ".">>,
              <<"CRITICAL TOOL ERROR",
                ": Failed to call Composio MULTI_EXECUTE. Error: ">>)]

\* RetrieveCalls of a loop that stops at the first retrieve answering
\* successful=false.
RetrieveCalls_StopAtFailure(keys, backend) ==
  LET all == [i \in 1 .. Len(keys) |->
                Call("remote_workbench", <<"retrieve", keys[i]>>, backend,
                     ClientCall(backend, remote_workbench("retrieve", keys[i], None)))]
      failing == {i \in 1 .. Len(keys) :
                    \/ all[i].result.raised
                    \/ ~all[i].result.value.successful}
  IN IF failing = {} THEN all
     ELSE SubSeq(all, 1, CHOOSE i \in failing : \A j \in failing : i <= j)

\* The retrieve calls of the loop of run_data_analysis, one per key in list
\* order; the loop ends at the first call that raises.
RetrieveCalls(keys, backend) ==
  LET all == [i \in 1 .. Len(keys) |->
                Call("remote_workbench", <<"retrieve", keys[i]>>, backend,
                     ClientCall(backend, remote_workbench("retrieve", keys[i], None)))]
      raising == {i \in 1 .. Len(keys) : all[i].result.raised}
  IN IF raising = {} THEN all
     ELSE SubSeq(all, 1, CHOOSE i \in raising : \A j \in raising : i <= j)

\* The try block of run_data_analysis.
AnalysisBody(workbench_keys_json, backend) ==
  LET parsed == json_loads(workbench_keys_json)
  IN IF parsed.raised THEN Did(parsed, <<>>, FALSE)
     ELSE IF parsed.value.k = "scalar" THEN Did(Raise("TypeError"), <<>>, FALSE)
     ELSE
       LET workbench_keys == [i \in 1 .. Len(parsed.value.l) |-> parsed.value.l[i].s]
           retrieves == RetrieveCalls(workbench_keys, backend)
       IN IF retrieves # <<>> /\ retrieves[Len(retrieves)].result.raised
          THEN Did(retrieves[Len(retrieves)].result, retrieves, FALSE)
          ELSE
            LET python_script ==
                  <<"analyze_data_from_workbench(keys=">> \o workbench_keys \o <<")">>
                bash_result == ClientCall(backend, remote_bash_tool(python_script))
                calls == Append(retrieves,
                                Call("remote_bash_tool", <<python_script>>,
                                     backend, bash_result))
            IN IF bash_result.raised THEN Did(bash_result, calls, FALSE)
               ELSE IF Get(bash_result.value, "successful", FALSE)
               THEN Did(Return(<<"Analysis complete. Raw analysis output (stdout JSON): ",
                                 bash_result.value.stdout>>),
                        calls, FALSE)
               ELSE Did(Return(<<"Error during Remote Bash execution: ",
                                 Get(bash_result.value, "stderr", "Unknown Error")>>),
                        calls, FALSE)

\* run_data_analysis(workbench_keys_json)
\* A run_data_analysis that remembers the process's earlier calls: it refuses
\* to analyse before a research call has been made.
run_data_analysis_NeedsResearch(workbench_keys_json, backend) ==
  IF \E i \in 1 .. Len(history) : history[i].op = "execute_parallel_research"
  THEN LET body == AnalysisBody(workbench_keys_json, backend)
       IN [body EXCEPT !.out =
             Catch(body.out,
                   <<"JSON", " Error: The 'workbench_keys_json' input was not valid ",
                     "JSON", ".">>,
                   <<"CRITICAL TOOL ERROR", ": Failed to run data analysis. Error: ">>)]
  ELSE Did(Return(<<"CRITICAL TOOL ERROR", ": Failed to run data analysis. Error: ",
                    "no research results in this session">>), <<>>, FALSE)

run_data_analysis(workbench_keys_json, backend) ==
  LET body == AnalysisBody(workbench_keys_json, backend)
  IN [body EXCEPT !.out =
        Catch(body.out,
              <<"JSON", " Error: The 'workbench_keys_json' input was not valid ",
                "JSON", ".">>,
              <<"CRITICAL TOOL ERROR", ": Failed to run data analysis. Error: ">>)]

\* The try block of publish_final_report: validation, then the publish step
\* (the page creation and the report URL).
PublishBody(final_synthesis_json) ==
  LET parsed == json_loads(final_synthesis_json)
  IN IF parsed.raised THEN Did(parsed, <<>>, FALSE)
     ELSE
       LET synthesis_data == FinalSynthesis(parsed.value)
       IN IF synthesis_data.raised THEN Did(synthesis_data, <<>>, FALSE)
          ELSE
            LET report_url ==
                  "https://notion.com/reports/"
                    \o ToString(hash(synthesis_data.value.hypothesis))
            IN Did(Return(<<"Final Synthesis ", "published successfully",
                            ". Report URL: ", report_url, ".">>),
                   <<>>, TRUE)

\* publish_final_report(final_synthesis_json)
publish_final_report(final_synthesis_json) ==
  LET body == PublishBody(final_synthesis_json)
  IN [body EXCEPT !.out =
        Catch(body.out,
              <<"JSON", " Error: The 'final_synthesis_json' input was not valid ",
                "JSON", ". Ensure all fields in FinalSynthesis are present.">>,
              <<"CRITICAL TOOL ERROR", ": Failed to publish report. Error: ">>)]

-----------------------------------------------------------------------------
(* Inputs of the wrappers *)

\* Values a text field of a payload may hold.
TextFields == {Absent, Bad} \cup {JStr(s) : s \in Strings}

\* Values a list-of-text field of a payload may hold.
ListFields == {Absent, Bad, JList(<<>>), JList(<<"graphene">>)}

\* Texts given to create_workflow_plan.
QueryTexts ==
  {Malformed, JsonText(Scalar), JsonText(JList(<<>>))}
    \cup {JsonText(JObj([topic |-> t, target_output |-> o, keywords |-> ks])) :
            t \in TextFields, o \in {Absent, Bad, JStr("protocol")}, ks \in ListFields}

\* Request items of the JSON list given to execute_parallel_research.
RequestItems ==
  {Scalar, JObj([arguments |-> "{\"max_results\": 5}"])}
    \cup {JObj([tool_slug |-> JStr(s)]) : s \in {"ARXIV_SEARCH", "custom_tool_slug"}}

\* Texts given to execute_parallel_research.
RequestTexts ==
  {Malformed, JsonText(Scalar), JsonText(JObj([tool_slug |-> JStr("ARXIV_SEARCH")]))}
    \cup {JsonText(JList(l)) : l \in SeqsUpTo(RequestItems, MaxItems)}

\* Texts given to run_data_analysis.
KeyTexts ==
  {Malformed, JsonText(Scalar)}
    \cup {JsonText(JList(l)) :
            l \in SeqsUpTo({JStr("ARXIV-RAW-DATA-KEY-123"), JStr("unknown-key")}, MaxKeys)}

\* Texts given to publish_final_report.
SynthesisTexts ==
  {Malformed, JsonText(Scalar), JsonText(JList(<<>>))}
    \cup {JsonText(JObj([hypothesis |-> h, protocol_summary |-> p,
                         analysis_findings |-> a,
                         prior_art_reference_links |-> ls, next_steps |-> n])) :
            h \in TextFields, p \in {Absent, JStr("steps")},
            a \in {Absent, JStr("findings")}, ls \in ListFields,
            n \in {Absent, JStr("in-vitro")}}

-----------------------------------------------------------------------------
(* Calls of the wrappers *)

Called(op, input, did) ==
  [op |-> op, input |-> input, out |-> did.out, calls |-> did.calls,
   published |-> did.published]

CallPlanWrapper ==
  \E query_json \in QueryTexts, backend \in Backends :
    /\ last = NoCall
    /\ last' = Called("create_workflow_plan", <<query_json>>,
                      create_workflow_plan(query_json, backend))
    /\ UNCHANGED <<hashOf, stores, run, history>>

CallResearchWrapper ==
  \E session_id \in SessionInputs, requests_json \in RequestTexts,
     backend \in Backends :
    /\ last = NoCall
    /\ last' = Called("execute_parallel_research", <<session_id, requests_json>>,
                      execute_parallel_research(session_id, requests_json, backend))
    /\ UNCHANGED <<hashOf, stores, run, history>>

CallAnalysisWrapper ==
  \E workbench_keys_json \in KeyTexts, backend \in Backends :
    /\ last = NoCall
    /\ last' = Called("run_data_analysis", <<workbench_keys_json>>,
                      run_data_analysis(workbench_keys_json, backend))
    /\ UNCHANGED <<hashOf, stores, run, history>>

CallPublishWrapper ==
  \E final_synthesis_json \in SynthesisTexts :
    /\ last = NoCall
    /\ last' = Called("publish_final_report", <<final_synthesis_json>>,
                      publish_final_report(final_synthesis_json))
    /\ UNCHANGED <<hashOf, stores, run, history>>

NextWrappers ==
  \/ TakeResult
  \/ CallPlanWrapper
  \/ CallResearchWrapper
  \/ CallAnalysisWrapper
  \/ CallPublishWrapper

SpecWrappers == Init /\ [][NextWrappers]_vars

-----------------------------------------------------------------------------
(* Several calls in one process *)

\* The wrapper calls a process makes one after another, in any order and with
\* repetitions: for each wrapper an input it accepts and one that differs.
RepeatedWrapperCalls ==
  { [op |-> "create_workflow_plan", input |-> <<t>>] :
      t \in {Malformed,
             JsonText(JObj([topic |-> JStr("graphene"),
                            target_output |-> JStr("protocol"),
                            keywords |-> JList(<<"graphene">>)]))} }
  \cup
  { [op |-> "execute_parallel_research",
     input |-> <<sid, JsonText(JList(<<JObj([tool_slug |-> JStr("ARXIV_SEARCH")])>>))>>] :
      sid \in SessionInputs }
  \cup
  { [op |-> "run_data_analysis", input |-> <<JsonText(JList(<<JStr(k)>>))>>] :
      k \in {"ARXIV-RAW-DATA-KEY-123", "unknown-key"} }
  \cup
  { [op |-> "publish_final_report",
     input |-> <<JsonText(JObj([hypothesis |-> JStr("graphene"),
                                protocol_summary |-> JStr("steps"),
                                analysis_findings |-> JStr("findings"),
                                prior_art_reference_links |-> JList(<<>>),
                                next_steps |-> n]))>>] :
      n \in {Absent, JStr("in-vitro")} }

\* The client calls a process makes between them: a store, and retrieves of
\* the keys a store returns.
RepeatedClientCalls ==
  { [op |-> "remote_workbench", input |-> <<"store", None, "graphene">>] }
  \cup
  { [op |-> "remote_workbench", input |-> <<"retrieve", "workbench-data-0", None>>] }

\* What a wrapper call gives on the module's client (COMPOSIO_CLIENT).
WrapperOutcome(call) ==
  LET did == CASE call.op = "create_workflow_plan" ->
                    create_workflow_plan(call.input[1], "simulated")
               [] call.op = "execute_parallel_research" ->
                    execute_parallel_research(call.input[1], call.input[2], "simulated")
               [] call.op = "run_data_analysis" ->
                    run_data_analysis(call.input[1], "simulated")
               [] call.op = "publish_final_report" ->
                    publish_final_report(call.input[1])
  IN did.out

\* One more wrapper call of the process.
NextWrapperCall ==
  \E call \in RepeatedWrapperCalls :
    /\ Len(history) < MaxHistory
    /\ history' = Append(history, [op |-> call.op, input |-> call.input,
                                   out |-> WrapperOutcome(call)])
    /\ UNCHANGED <<hashOf, last, stores, run>>

\* One more client call of the process.
NextClientCall ==
  \E call \in RepeatedClientCalls :
    /\ Len(history) < MaxHistory
    /\ history' = Append(history,
                         [op |-> call.op, input |-> call.input,
                          out |-> remote_workbench(call.input[1], call.input[2],
                                                   call.input[3])])
    /\ UNCHANGED <<hashOf, last, stores, run>>

NextRepeated == NextWrapperCall \/ NextClientCall

SpecRepeated == Init /\ [][NextRepeated]_vars

-----------------------------------------------------------------------------
(* run_workflow.py, tasks.py *)

\* How the texts of the wrappers begin.
ErrorPrefixes ==
  {"CRITICAL TOOL ERROR", "JSON", "Error generating plan: ",
   "Error during multi-execution: ", "Error during Remote Bash execution: "}

\* A text a wrapper returns to report a failure.
IsErrorText(text) == text[1] \in ErrorPrefixes

\* The tasks of the crew, in the order of the tasks list of Crew(...).
Stages == <<"CreateWorkflowPlan", "ExecuteParallelResearch",
            "RunRemoteDataAnalysis", "PublishFinalReport">>

\* What the tool of a task may return to its agent: the agent (a language
\* model) chooses the tool's input; the client is the simulated one.
StageTexts(stage) ==
  CASE stage = 1 ->
         {create_workflow_plan(q, "simulated").out.value : q \in QueryTexts}
    [] stage = 2 ->
         {execute_parallel_research(sid, r, "simulated").out.value :
            sid \in SessionInputs, r \in RequestTexts}
    [] stage = 3 ->
         {run_data_analysis(ks, "simulated").out.value : ks \in KeyTexts}
    [] stage = 4 ->
         {publish_final_report(f).out.value : f \in SynthesisTexts}

\* run_co_scientist_crew up to kickoff: the ResearchQuery is built from the
\* arguments outside any try block, then the four tasks and the crew.
RunCrew ==
  \E topic \in {"graphene"},
     keywords \in {Bad, JList(<<>>), JList(<<"graphene", "delivery">>)} :
    /\ run.pc = "idle"
    /\ LET research_query ==
             ResearchQuery(JObj([topic |-> JStr(topic),
                                 target_output |-> JStr("protocol"),
                                 keywords |-> keywords]))
       IN IF research_query.raised
          THEN run' = [run EXCEPT !.pc = "raised"]
          ELSE run' = [run EXCEPT !.pc = "running",
                                  !.keywords = research_query.value.keywords,
                                  !.stage = 1, !.started = <<1>>]
    /\ UNCHANGED <<hashOf, last, stores, history>>

\* The agent of the running task calls the task's tool: the wrapper runs in
\* the agent's thread.
ToolCall ==
  /\ run.pc = "running"
  /\ run.inTool = 0
  /\ run.calls < MaxCalls
  /\ run' = [run EXCEPT !.calls = @ + 1, !.inTool = run.stage]
  /\ UNCHANGED <<hashOf, last, stores, history>>

\* The wrapper returns its text to the agent that called it.
ToolReturn ==
  /\ run.pc = "running"
  /\ run.inTool # 0
  /\ \E text \in StageTexts(run.inTool) :
       run' = [run EXCEPT
                 !.inTool = 0,
                 !.errStage = IF @ = 0 /\ IsErrorText(text) THEN run.inTool ELSE @,
                 !.errCall = IF run.errStage = 0 /\ IsErrorText(text)
                             THEN run.calls ELSE @]
  /\ UNCHANGED <<hashOf, last, stores, history>>

\* TaskDone of a crew whose tasks do not wait for the tool call in progress
\* (asynchronous task execution).
TaskDone_Async ==
  /\ run.pc = "running"
  /\ IF run.stage < Len(Stages)
     THEN run' = [run EXCEPT !.stage = @ + 1, !.started = Append(@, run.stage + 1),
                             !.calls = 0]
     ELSE run' = [run EXCEPT !.pc = "complete"]
  /\ UNCHANGED <<hashOf, last, stores, history>>

\* The running task ends with its agent's answer, given once the agent's tool
\* calls have returned; process='sequential' starts the next task of the
\* list, or kickoff returns after the last one.
TaskDone ==
  /\ run.pc = "running"
  /\ run.inTool = 0
  /\ IF run.stage < Len(Stages)
     THEN run' = [run EXCEPT !.stage = @ + 1, !.started = Append(@, run.stage + 1),
                             !.calls = 0]
     ELSE run' = [run EXCEPT !.pc = "complete"]
  /\ UNCHANGED <<hashOf, last, stores, history>>

\* kickoff raises (the language model cannot be reached): the except clause
\* of run_co_scientist_crew prints the failure and the function returns.
KickoffRaises ==
  /\ run.pc = "running"
  /\ run.inTool = 0
  /\ run' = [run EXCEPT !.pc = "failure"]
  /\ UNCHANGED <<hashOf, last, stores, history>>

NextPipeline ==
  \/ RunCrew
  \/ ToolCall
  \/ ToolReturn
  \/ TaskDone
  \/ KickoffRaises

SpecPipeline == Init /\ [][NextPipeline]_vars

-----------------------------------------------------------------------------
(* Properties of the Tool Router Client *)

\* C1 (as claimed): multi_execute_tool on N requests returns exactly N result
\* slots, and the i-th slot carries the i-th request's tool_slug.
C1_SlotsAlignRequests ==
  last.op = "multi_execute_tool" =>
    /\ ~last.result.raised
    /\ Len(last.result.value.results) = Len(last.requests)
    /\ \A i \in 1 .. Len(last.requests) :
         last.result.value.results[i].tool_slug = last.requests[i].tool_slug

\* The store calls logged so far that returned the key.
StoredUnder(key) == {i \in 1 .. Len(stores) : stores[i].returned = key}

\* C2 (as claimed): a retrieve with a key an earlier store returned succeeds
\* and returns a value stored under that key; a retrieve with a key no earlier
\* store returned or was given fails.
C2_StoreRetrieveRoundTrip ==
  last.op = "retrieve" =>
    IF StoredUnder(last.key) # {}
    THEN /\ ~last.result.raised
         /\ last.result.value.successful
         /\ \E i \in StoredUnder(last.key) :
              Get(last.result.value, "data", None) = stores[i].data
    ELSE /\ ~last.result.raised
         /\ ~last.result.value.successful

\* C8 (as claimed): a store called without a key returns a key that no
\* earlier store of the session returned or was given.
C8_FreshKeys ==
  \A j \in 1 .. Len(stores) :
    stores[j].given = None =>
      \A i \in 1 .. j - 1 : stores[i].returned # stores[j].returned

\* C10 (as claimed): create_plan succeeds for every use case and every slug
\* list, shorter than two included: it returns successful=true, a session id
\* and a non-empty step list, and does not raise.
C10_CreatePlanAlwaysSucceeds ==
  last.op = "create_plan" =>
    /\ ~last.result.raised
    /\ last.result.value.successful
    /\ last.result.value.session_id # ""
    /\ Len(last.result.value.workflow_steps) > 0

-----------------------------------------------------------------------------
(* Properties of the wrappers *)

WrapperOps ==
  {"create_workflow_plan", "execute_parallel_research", "run_data_analysis",
   "publish_final_report"}

\* The JSON-carrying argument of the last wrapper call.
JsonArg == last.input[Len(last.input)]

\* C3: a wrapper given a text that is not JSON returns a text containing the
\* word "JSON", raises nothing and makes no client call.
C3_MalformedJsonReported ==
  (last.op \in WrapperOps /\ ~JsonArg.wellformed) =>
    /\ ~last.out.raised
    /\ Contains(last.out.value, "JSON")
    /\ last.calls = <<>>

\* C3's case, for the wrapper that also validates a schema.
C3_Witness ==
  /\ last.op = "publish_final_report"
  /\ ~JsonArg.wellformed
  /\ Contains(last.out.value, "JSON")

\* The input of the last wrapper call is rejected before any client call: it
\* is no JSON, or JSON of the wrong shape, or fails the wrapper's schema.
InputRejected ==
  \/ ~JsonArg.wellformed
  \/ /\ last.op = "create_workflow_plan"
     /\ ResearchQuery(JsonArg.value).raised
  \/ /\ last.op = "publish_final_report"
     /\ FinalSynthesis(JsonArg.value).raised
  \/ /\ last.op \in {"execute_parallel_research", "run_data_analysis"}
     /\ JsonArg.value.k # "list"
  \/ /\ last.op = "execute_parallel_research"
     /\ JsonArg.value.k = "list"
     /\ \E i \in 1 .. Len(JsonArg.value.l) : JsonArg.value.l[i].k # "obj"

\* A client call of the last wrapper call raised or answered successful=false.
CallFailed(c) ==
  \/ c.result.raised
  \/ ~Get(c.result.value, "successful", FALSE)

\* The last wrapper call returned a text: a non-empty sequence of strings.
ReturnedText ==
  /\ ~last.out.raised
  /\ last.out.value \in Seq(STRING)
  /\ last.out.value # <<>>

OnSimulatedClient ==
  \A i \in 1 .. Len(last.calls) : last.calls[i].backend = "simulated"

\* C5: given a valid ResearchQuery, create_workflow_plan calls create_plan
\* exactly once and returns the success text, which contains the non-empty
\* session id that call issued and at least one of its workflow steps.
C5_ValidQueryGetsPlan ==
  ( /\ last.op = "create_workflow_plan"
    /\ JsonArg.wellformed
    /\ ~ResearchQuery(JsonArg.value).raised
    /\ OnSimulatedClient ) =>
    /\ Len(last.calls) = 1
    /\ last.calls[1].op = "create_plan"
    /\ ~last.calls[1].result.raised
    /\ ~last.out.raised
    /\ last.out.value[1] = "Plan successful. Session ID: "
    /\ last.calls[1].result.value.session_id # ""
    /\ Contains(last.out.value, last.calls[1].result.value.session_id)
    /\ \E i \in 1 .. Len(last.calls[1].result.value.workflow_steps) :
         Contains(last.out.value, last.calls[1].result.value.workflow_steps[i])

\* C5's case: a valid query was planned on the simulated client.
C5_Witness ==
  /\ last.op = "create_workflow_plan"
  /\ JsonArg.wellformed
  /\ ~ResearchQuery(JsonArg.value).raised
  /\ last.calls # <<>>
  /\ OnSimulatedClient
  /\ Contains(last.out.value, "sess-1")

FinalSynthesisFields ==
  {"hypothesis", "protocol_summary", "analysis_findings",
   "prior_art_reference_links", "next_steps"}

\* The payload is an object in which every required field is present.
CarriesEveryField(text) ==
  /\ text.wellformed
  /\ text.value.k = "obj"
  /\ \A name \in FinalSynthesisFields :
       Get(text.value.f, name, Absent).k # "absent"

\* The payload carries every required field with a value of the field's
\* type: a list of text for the links (the empty list included), text for
\* the others.
CarriesEveryFieldWellTyped(text) ==
  /\ CarriesEveryField(text)
  /\ \A name \in FinalSynthesisFields :
       text.value.f[name].k =
         (IF name = "prior_art_reference_links" THEN "list" ELSE "str")

\* C6 (as claimed): publish_final_report returns the "published
\* successfully" text if and only if the payload carries every required
\* field; otherwise it returns an error text and does not publish.
C6_PublishIffAllFieldsPresent ==
  last.op = "publish_final_report" =>
    /\ ~last.out.raised
    /\ Contains(last.out.value, "published successfully")
         <=> CarriesEveryField(JsonArg)
    /\ ~CarriesEveryField(JsonArg) =>
         (IsErrorText(last.out.value) /\ ~last.published)

\* C6 (amended): publish_final_report returns the "published successfully"
\* text if and only if the payload carries every required field with a value
\* of the field's type; otherwise it returns an error text and does not
\* publish.
C6_PublishIffAllFieldsValid ==
  last.op = "publish_final_report" =>
    /\ ~last.out.raised
    /\ Contains(last.out.value, "published successfully")
         <=> CarriesEveryFieldWellTyped(JsonArg)
    /\ last.published <=> CarriesEveryFieldWellTyped(JsonArg)
    /\ ~CarriesEveryFieldWellTyped(JsonArg) => IsErrorText(last.out.value)

\* C6's case: a complete payload with an empty list of links was published.
C6_Witness ==
  /\ last.op = "publish_final_report"
  /\ CarriesEveryFieldWellTyped(JsonArg)
  /\ JsonArg.value.f.prior_art_reference_links.l = <<>>
  /\ last.published
  /\ Contains(last.out.value, "published successfully")

\* C9 (as claimed): a ResearchQuery with an empty keywords list fails
\* validation: create_workflow_plan returns a "CRITICAL TOOL ERROR" text and
\* does not call create_plan.
C9_EmptyKeywordsRejected ==
  ( /\ last.op = "create_workflow_plan"
    /\ JsonArg.wellformed
    /\ JsonArg.value.k = "obj"
    /\ JsonArg.value.f.keywords = JList(<<>>)
    /\ OnSimulatedClient ) =>
    /\ ~last.out.raised
    /\ last.out.value[1] = "CRITICAL TOOL ERROR"
    /\ last.calls = <<>>

-----------------------------------------------------------------------------
(* Properties of the crew run *)

\* C7 (as claimed): once a stage's wrapper has returned an error text, no
\* later stage is started, the stage's tool is not called again, and the run
\* does not end as complete.
C7_HaltsOnErrorText ==
  run.errStage # 0 =>
    /\ run.stage = run.errStage
    /\ run.calls = run.errCall
    /\ run.pc # "complete"

C12_RetrievesThenOneExecution ==
  ( /\ last.op = "run_data_analysis"
    /\ JsonArg.wellformed
    /\ JsonArg.value.k = "list"
    /\ \A i \in 1 .. Len(last.calls) : last.calls[i].backend # "raises" ) =>
    LET keys == JsonArg.value.l
        K    == Len(keys)
    IN /\ Len(last.calls) = K + 1
       /\ \A i \in 1 .. K :
            /\ last.calls[i].op = "remote_workbench"
            /\ last.calls[i].args = <<"retrieve", keys[i].s>>
       /\ last.calls[K + 1].op = "remote_bash_tool"
       /\ ~last.out.raised
       /\ Get(last.calls[K + 1].result.value, "successful", FALSE) =>
            /\ last.out.value[1] =
                 "Analysis complete. Raw analysis output (stdout JSON): "
            /\ last.out.value[2] = last.calls[K + 1].result.value.stdout

\* C12's case: the first retrieve failed on an unknown key, the second was
\* still made, and the execution's stdout was returned.
C12_Witness ==
  /\ last.op = "run_data_analysis"
  /\ Len(last.calls) = 3
  /\ last.calls[1].args = <<"retrieve", "unknown-key">>
  /\ ~last.calls[1].result.value.successful
  /\ last.calls[1].backend = "simulated"
  /\ last.calls[2].args = <<"retrieve", "ARXIV-RAW-DATA-KEY-123">>
  /\ last.calls[3].op = "remote_bash_tool"
  /\ last.out.value[2] = AnalysisStdout

\* The tool_slug of an input request item, None when the item has none.
InputSlug(item) ==
  IF "tool_slug" \in DOMAIN item.f THEN item.f.tool_slug.s ELSE None

\* The keys of the known-slug table.
KnownSlugNames ==
  {"ARXIV_SEARCH", "PUBCHEM_QUERY", "NOTION_DRAFT", "REMOTE_BASH",
   "MULTI_EXECUTE", "CREATE_PLAN", "REMOTE_WORKBENCH"}

\* C13: given a JSON list of request objects, execute_parallel_research
\* calls multi_execute_tool once with a list of the same length and order,
\* whose i-th tool_slug is the table entry of the i-th input slug when that
\* slug is a key of the table and the input slug itself otherwise, and with
\* the session id unchanged; on the simulated client an unknown slug does not
\* make the wrapper return an error text.
C13_SlugsResolvedInOrder ==
  ( /\ last.op = "execute_parallel_research"
    /\ JsonArg.wellformed
    /\ JsonArg.value.k = "list"
    /\ \A i \in 1 .. Len(JsonArg.value.l) : JsonArg.value.l[i].k = "obj" ) =>
    LET items == JsonArg.value.l
    IN /\ Len(last.calls) = 1
       /\ last.calls[1].op = "multi_execute_tool"
       /\ Len(last.calls[1].args[1]) = Len(items)
       /\ \A i \in 1 .. Len(items) :
            last.calls[1].args[1][i].tool_slug =
              (IF InputSlug(items[i]) \in KnownSlugNames
               THEN TOOL_SLUGS[InputSlug(items[i])]
               ELSE InputSlug(items[i]))
       /\ last.calls[1].args[2] = last.input[1]
       /\ ~last.out.raised
       /\ last.calls[1].backend = "simulated" => ~IsErrorText(last.out.value)

\* C13's case: a known slug followed by an unknown one, forwarded as the
\* table entry and as itself.
C13_Witness ==
  /\ last.op = "execute_parallel_research"
  /\ Len(last.calls) = 1
  /\ Len(last.calls[1].args[1]) = 2
  /\ last.calls[1].args[1][1].tool_slug = "arxiv_search_tool_slug"
  /\ last.calls[1].args[1][2].tool_slug = "custom_tool_slug"
  /\ last.calls[1].args[2] = "sess-unknown"
  /\ ~IsErrorText(last.out.value)


-----------------------------------------------------------------------------
(* Calls are independent of each other *)

\* A syntactically valid input of the analysis and publish wrappers.
ValidLateInput(entry) ==
  \/ /\ entry.op = "run_data_analysis"
     /\ entry.input[1].wellformed
     /\ entry.input[1].value.k = "list"
  \/ /\ entry.op = "publish_final_report"
     /\ CarriesEveryFieldWellTyped(entry.input[1])

====
